---- MODULE Spec2Model ----
(***************************************************************************)
(* AutoDoc Agent desktop shell (src/desktop/src-tauri/src).                *)
(*                                                                         *)
(* Two state machines share this module:                                   *)
(*   - the backend process supervisor of sidecar.rs (BackendProcess and    *)
(*     the sidecar commands), a handle guarded by one Mutex and called     *)
(*     from several threads;  specification Spec;                          *)
(*   - the configuration manager of config.rs over the credential store    *)
(*     of secure_storage.rs, the confy file and the file system;           *)
(*     specification CfgSpec.                                              *)
(***************************************************************************)
EXTENDS Integers, Sequences, FiniteSets, TLC

\* ------------------------------------------------------------- bounds
NumThreads == 2
MaxSpawns == 2

Threads == 1..NumThreads
Pids == 1..MaxSpawns
NoThread == 0
NoChild == 0

VARIABLES
    \* ---- sidecar.rs
    child,      \* BackendProcess.child: the Option<Child> inside the Mutex (NoChild = None)
    lock,       \* the thread holding the MutexGuard of BackendProcess.child (NoThread = free)
    alive,      \* the spawned processes that are still running (operating system)
    nSpawned,   \* number of processes spawned so far (the next pid is nSpawned + 1)
    pc,         \* per thread: the line its call has reached ("idle" = no call in progress)
    op,         \* per thread: the command being executed, or the last one executed
    ret,        \* per thread: the Result of its last finished command
    running,    \* per thread: the bool of is_running / BackendStatus.running
    healthy,    \* per thread: the bool of check_backend_health / BackendStatus.healthy
    taken,      \* per thread: stop's local `child`, the handle it took out of the Option
    response,   \* per thread: what send() returned to check_backend_health ("none" = no request made)
    onlyStarts, \* every command so far was a start_backend, at most one on each thread
    \* ---- config.rs, secure_storage.rs
    keychain,   \* the OS keychain entries of service "AutoDoc Agent": key -> Option<String>
    cfgFile,    \* the confy file ("autodoc-agent", "config"): absent, or its serialized fields
    fsDirs,     \* the directories that exist in the file system
    req,        \* the command the UI has invoked and that has not been handled yet
    resp,       \* what the last handled command returned
    last,       \* the last handled command: its name, its secret arguments, the faults it met
    validated   \* validate_path on its own: the path it is given and the Result it returns

supVars ==
    <<child, lock, alive, nSpawned, pc, op, ret, running, healthy, taken, response, onlyStarts>>
cfgVars == <<keychain, cfgFile, fsDirs, req, resp, last, validated>>
vars == <<supVars, cfgVars>>

\* ------------------------------------------------------------ sidecar.rs

\* BackendProcess::new: no handle, nobody holds the lock, no call in progress.
SupInit ==
    /\ child = NoChild
    /\ lock = NoThread
    /\ alive = {}
    /\ nSpawned = 0
    /\ pc = [t \in Threads |-> "idle"]
    /\ op = [t \in Threads |-> "none"]
    /\ ret = [t \in Threads |-> "none"]
    /\ running = [t \in Threads |-> FALSE]
    /\ healthy = [t \in Threads |-> FALSE]
    /\ taken = [t \in Threads |-> NoChild]
    /\ response = [t \in Threads |-> "none"]
    /\ onlyStarts = TRUE

\* A command is dispatched on thread t: its locals are fresh.
Dispatch(t, command, first) ==
    /\ pc[t] = "idle"
    /\ UNCHANGED cfgVars
    /\ pc' = [pc EXCEPT ![t] = first]
    /\ op' = [op EXCEPT ![t] = command]
    /\ ret' = [ret EXCEPT ![t] = "none"]
    /\ running' = [running EXCEPT ![t] = FALSE]
    /\ healthy' = [healthy EXCEPT ![t] = FALSE]
    /\ onlyStarts' = (onlyStarts /\ command = "start" /\ op[t] = "none")
    /\ UNCHANGED <<child, lock, alive, nSpawned, taken, response>>

\* start_backend: backend.start(port). The port is only passed on to the child's argv.
StartCall(t) == Dispatch(t, "start", "start_lock")

\* stop_backend: backend.stop().
StopCall(t) == Dispatch(t, "stop", "stop_lock")

\* restart_backend: backend.restart(port), which begins with self.stop().
RestartCall(t) == Dispatch(t, "restart", "stop_lock")

\* BackendProcess::is_running called on its own.
IsRunningCall(t) == Dispatch(t, "is_running", "isrun_lock")

\* get_backend_status, which begins with backend.is_running().
StatusCall(t) == Dispatch(t, "get_status", "isrun_lock")

\* check_backend_health: no handle access at all, straight to the request.
HealthCall(t) == Dispatch(t, "check_health", "health_probe")

\* A lock() that does not wait for the holder of the guard.
AcquireWithoutWaiting(t, at, next) ==
    /\ pc[t] = at
    /\ UNCHANGED cfgVars
    /\ lock' = t
    /\ pc' = [pc EXCEPT ![t] = next]
    /\ UNCHANGED <<child, alive, nSpawned, op, ret, running, healthy, taken, response, onlyStarts>>

\* self.child.lock().unwrap(): blocks until the Mutex is free, then holds the guard.
Acquire(t, at, next) ==
    /\ pc[t] = at
    /\ UNCHANGED cfgVars
    /\ lock = NoThread
    /\ lock' = t
    /\ pc' = [pc EXCEPT ![t] = next]
    /\ UNCHANGED <<child, alive, nSpawned, op, ret, running, healthy, taken, response, onlyStarts>>

StartLock(t) == Acquire(t, "start_lock", "start_check")
StopLock(t) == Acquire(t, "stop_lock", "stop_take")
IsRunningLock(t) == Acquire(t, "isrun_lock", "isrun_read")

\* start without its `is_some()` check.
StartCheckNoGuard(t) ==
    /\ pc[t] = "start_check"
    /\ UNCHANGED cfgVars
    /\ lock = t
    /\ pc' = [pc EXCEPT ![t] = "start_spawn"]
    /\ UNCHANGED <<child, lock, alive, nSpawned, op, ret, running, healthy, taken, response, onlyStarts>>

\* start returning the already-running error with the guard never dropped.
StartCheckLeaksGuard(t) ==
    /\ pc[t] = "start_check"
    /\ UNCHANGED cfgVars
    /\ lock = t
    /\ IF child # NoChild
         THEN /\ pc' = [pc EXCEPT ![t] = "idle"]
              /\ ret' = [ret EXCEPT ![t] = "AlreadyRunning"]
         ELSE /\ pc' = [pc EXCEPT ![t] = "start_spawn"]
              /\ UNCHANGED ret
    /\ UNCHANGED <<child, lock, alive, nSpawned, op, running, healthy, taken, response, onlyStarts>>

\* start, `if child_lock.is_some() { return Err(already running) }`: the guard is
\* dropped by the return.
StartCheck(t) ==
    /\ pc[t] = "start_check"
    /\ UNCHANGED cfgVars
    /\ lock = t
    /\ IF child # NoChild
         THEN /\ pc' = [pc EXCEPT ![t] = "idle"]
              /\ ret' = [ret EXCEPT ![t] = "AlreadyRunning"]
              /\ lock' = NoThread
         ELSE /\ pc' = [pc EXCEPT ![t] = "start_spawn"]
              /\ UNCHANGED <<ret, lock>>
    /\ UNCHANGED <<child, alive, nSpawned, op, running, healthy, taken, response, onlyStarts>>

\* start dropping its guard once the handle is stored, before the warm-up sleep.
StartSpawnOkDropsGuard(t) ==
    /\ pc[t] = "start_spawn"
    /\ UNCHANGED cfgVars
    /\ lock = t
    /\ nSpawned < MaxSpawns
    /\ nSpawned' = nSpawned + 1
    /\ alive' = alive \cup {nSpawned + 1}
    /\ child' = nSpawned + 1
    /\ lock' = NoThread
    /\ pc' = [pc EXCEPT ![t] = "start_sleep"]
    /\ UNCHANGED <<op, ret, running, healthy, taken, response, onlyStarts>>

\* start, Command::spawn() succeeded: `*child_lock = Some(child)`, then the warm-up
\* sleep, still under the guard.
StartSpawnOk(t) ==
    /\ pc[t] = "start_spawn"
    /\ UNCHANGED cfgVars
    /\ lock = t
    /\ nSpawned < MaxSpawns
    /\ nSpawned' = nSpawned + 1
    /\ alive' = alive \cup {nSpawned + 1}
    /\ child' = nSpawned + 1
    /\ pc' = [pc EXCEPT ![t] = "start_sleep"]
    /\ UNCHANGED <<lock, op, ret, running, healthy, taken, response, onlyStarts>>

\* start storing a handle before it looks at the result of spawn().
StartSpawnFailStoresHandle(t) ==
    /\ pc[t] = "start_spawn"
    /\ UNCHANGED cfgVars
    /\ lock = t
    /\ child' = nSpawned + 1
    /\ pc' = [pc EXCEPT ![t] = "idle"]
    /\ ret' = [ret EXCEPT ![t] = "SpawnFailed"]
    /\ lock' = NoThread
    /\ UNCHANGED <<alive, nSpawned, op, running, healthy, taken, response, onlyStarts>>

\* start, Command::spawn() failed: `?` returns the error before the handle is assigned.
StartSpawnFail(t) ==
    /\ pc[t] = "start_spawn"
    /\ UNCHANGED cfgVars
    /\ lock = t
    /\ pc' = [pc EXCEPT ![t] = "idle"]
    /\ ret' = [ret EXCEPT ![t] = "SpawnFailed"]
    /\ lock' = NoThread
    /\ UNCHANGED <<child, alive, nSpawned, op, running, healthy, taken, response, onlyStarts>>

\* start, after thread::sleep(2 s): Ok(()), the guard is dropped.
StartReturn(t) ==
    /\ pc[t] = "start_sleep"
    /\ UNCHANGED cfgVars
    /\ lock = t
    /\ pc' = [pc EXCEPT ![t] = "idle"]
    /\ ret' = [ret EXCEPT ![t] = "Ok"]
    /\ lock' = NoThread
    /\ UNCHANGED <<child, alive, nSpawned, op, running, healthy, taken, response, onlyStarts>>

\* restart written `self.stop()?`: a failed stop ends the restart.
StopEndsPropagates(t, result) ==
    /\ lock' = NoThread
    /\ IF op[t] = "restart" /\ result = "Ok"
         THEN /\ pc' = [pc EXCEPT ![t] = "restart_sleep"]
              /\ UNCHANGED ret
         ELSE /\ pc' = [pc EXCEPT ![t] = "idle"]
              /\ ret' = [ret EXCEPT ![t] = result]

\* restart keeping the guard of its stop phase until its start phase.
StopEndsKeepsGuard(t, result) ==
    /\ IF op[t] = "restart"
         THEN /\ pc' = [pc EXCEPT ![t] = "restart_sleep"]
              /\ UNCHANGED <<ret, lock>>
         ELSE /\ pc' = [pc EXCEPT ![t] = "idle"]
              /\ ret' = [ret EXCEPT ![t] = result]
              /\ lock' = NoThread

\* The end of stop(): stop_backend returns its result; restart discards it
\* (`self.stop().ok()`) and goes on to its cool-down sleep.
StopEnds(t, result) ==
    /\ lock' = NoThread
    /\ IF op[t] = "restart"
         THEN /\ pc' = [pc EXCEPT ![t] = "restart_sleep"]
              /\ UNCHANGED ret
         ELSE /\ pc' = [pc EXCEPT ![t] = "idle"]
              /\ ret' = [ret EXCEPT ![t] = result]

\* stop reading the handle with as_mut() instead of take().
StopTakePeeks(t) ==
    /\ pc[t] = "stop_take"
    /\ UNCHANGED cfgVars
    /\ lock = t
    /\ IF child # NoChild
         THEN /\ taken' = [taken EXCEPT ![t] = child]
              /\ pc' = [pc EXCEPT ![t] = "stop_kill"]
              /\ UNCHANGED <<child, lock, ret>>
         ELSE /\ StopEnds(t, "NotRunning")
              /\ UNCHANGED <<child, taken>>
    /\ UNCHANGED <<alive, nSpawned, op, running, healthy, response, onlyStarts>>

\* stop, `child_lock.take()`: Some(child) empties the Option; None is the not-running error.
StopTake(t) ==
    /\ pc[t] = "stop_take"
    /\ UNCHANGED cfgVars
    /\ lock = t
    /\ IF child # NoChild
         THEN /\ taken' = [taken EXCEPT ![t] = child]
              /\ child' = NoChild
              /\ pc' = [pc EXCEPT ![t] = "stop_kill"]
              /\ UNCHANGED <<lock, ret>>
         ELSE /\ StopEnds(t, "NotRunning")
              /\ UNCHANGED <<child, taken>>
    /\ UNCHANGED <<alive, nSpawned, op, running, healthy, response, onlyStarts>>

\* stop, child.kill() returned Ok: the process is gone.
StopKillOk(t) ==
    /\ pc[t] = "stop_kill"
    /\ UNCHANGED cfgVars
    /\ lock = t
    /\ alive' = alive \ {taken[t]}
    /\ taken' = [taken EXCEPT ![t] = NoChild]
    /\ StopEnds(t, "Ok")
    /\ UNCHANGED <<child, nSpawned, op, running, healthy, response, onlyStarts>>

\* stop putting the handle back when the kill fails.
StopKillFailRestoresHandle(t) ==
    /\ pc[t] = "stop_kill"
    /\ UNCHANGED cfgVars
    /\ lock = t
    /\ child' = taken[t]
    /\ taken' = [taken EXCEPT ![t] = NoChild]
    /\ StopEnds(t, "KillFailed")
    /\ UNCHANGED <<alive, nSpawned, op, running, healthy, response, onlyStarts>>

\* stop, child.kill() returned Err: the process is left as it was, the taken handle
\* is dropped all the same.
StopKillFail(t) ==
    /\ pc[t] = "stop_kill"
    /\ UNCHANGED cfgVars
    /\ lock = t
    /\ taken' = [taken EXCEPT ![t] = NoChild]
    /\ StopEnds(t, "KillFailed")
    /\ UNCHANGED <<child, alive, nSpawned, op, running, healthy, response, onlyStarts>>

\* restart, after thread::sleep(1 s): self.start(port).
RestartSleep(t) ==
    /\ pc[t] = "restart_sleep"
    /\ UNCHANGED cfgVars
    /\ pc' = [pc EXCEPT ![t] = "start_lock"]
    /\ UNCHANGED <<child, lock, alive, nSpawned, op, ret, running, healthy, taken, response, onlyStarts>>

\* get_backend_status probing whatever is_running answered.
IsRunningReadProbesAlways(t) ==
    /\ pc[t] = "isrun_read"
    /\ UNCHANGED cfgVars
    /\ lock = t
    /\ running' = [running EXCEPT ![t] = (child # NoChild)]
    /\ lock' = NoThread
    /\ IF op[t] = "get_status"
         THEN /\ pc' = [pc EXCEPT ![t] = "health_probe"]
              /\ UNCHANGED ret
         ELSE /\ pc' = [pc EXCEPT ![t] = "idle"]
              /\ ret' = [ret EXCEPT ![t] = "Ok"]
    /\ UNCHANGED <<child, alive, nSpawned, op, healthy, taken, response, onlyStarts>>

\* is_running answering whether the child process is still alive.
IsRunningReadTriesWait(t) ==
    /\ pc[t] = "isrun_read"
    /\ UNCHANGED cfgVars
    /\ lock = t
    /\ running' = [running EXCEPT ![t] = (child \in alive)]
    /\ lock' = NoThread
    /\ IF op[t] = "get_status" /\ child \in alive
         THEN /\ pc' = [pc EXCEPT ![t] = "health_probe"]
              /\ UNCHANGED ret
         ELSE /\ pc' = [pc EXCEPT ![t] = "idle"]
              /\ ret' = [ret EXCEPT ![t] = "Ok"]
    /\ UNCHANGED <<child, alive, nSpawned, op, healthy, taken, response, onlyStarts>>

\* get_backend_status keeping the guard of is_running while it probes.
IsRunningReadKeepsGuard(t) ==
    /\ pc[t] = "isrun_read"
    /\ UNCHANGED cfgVars
    /\ lock = t
    /\ running' = [running EXCEPT ![t] = (child # NoChild)]
    /\ IF op[t] = "get_status" /\ child # NoChild
         THEN /\ pc' = [pc EXCEPT ![t] = "health_probe"]
              /\ UNCHANGED <<ret, lock>>
         ELSE /\ pc' = [pc EXCEPT ![t] = "idle"]
              /\ ret' = [ret EXCEPT ![t] = "Ok"]
              /\ lock' = NoThread
    /\ UNCHANGED <<child, alive, nSpawned, op, healthy, taken, response, onlyStarts>>

\* is_running, `child_lock.is_some()`; the guard is dropped by the return. In
\* get_backend_status the probe follows only `if is_running`.
IsRunningRead(t) ==
    /\ pc[t] = "isrun_read"
    /\ UNCHANGED cfgVars
    /\ lock = t
    /\ running' = [running EXCEPT ![t] = (child # NoChild)]
    /\ lock' = NoThread
    /\ IF op[t] = "get_status" /\ child # NoChild
         THEN /\ pc' = [pc EXCEPT ![t] = "health_probe"]
              /\ UNCHANGED ret
         ELSE /\ pc' = [pc EXCEPT ![t] = "idle"]
              /\ ret' = [ret EXCEPT ![t] = "Ok"]
    /\ UNCHANGED <<child, alive, nSpawned, op, healthy, taken, response, onlyStarts>>

\* What client.get(..).timeout(5 s).send() can return: Ok(response) with a
\* success-class status, Ok(response) with any other status, or Err (no
\* connection, timeout).
Responses == {"success_status", "other_status", "error"}

\* check_backend_health, GET http://localhost:3000/health with a 5 s timeout: the
\* answer depends on whatever listens on that port, so every response is possible
\* whether or not a handle is held.
HealthProbe(t) ==
    /\ pc[t] = "health_probe"
    /\ UNCHANGED cfgVars
    /\ \E r \in Responses : response' = [response EXCEPT ![t] = r]
    /\ pc' = [pc EXCEPT ![t] = "health_match"]
    /\ UNCHANGED <<child, lock, alive, nSpawned, op, ret, running, healthy, taken, onlyStarts>>

\* check_backend_health handing the error of send() to its caller.
HealthMatchPropagates(t) ==
    /\ pc[t] = "health_match"
    /\ UNCHANGED cfgVars
    /\ healthy' = [healthy EXCEPT ![t] = (response[t] = "success_status")]
    /\ response' = [response EXCEPT ![t] = "none"]
    /\ pc' = [pc EXCEPT ![t] = "idle"]
    /\ ret' = [ret EXCEPT ![t] = IF response[t] = "error" THEN "ProbeFailed" ELSE "Ok"]
    /\ UNCHANGED <<child, lock, alive, nSpawned, op, running, taken, onlyStarts>>

\* check_backend_health, the match on send(): Ok(response) => Ok(is_success()),
\* Err(_) => Ok(false). In get_backend_status the result is unwrap_or(false).
HealthMatch(t) ==
    /\ pc[t] = "health_match"
    /\ UNCHANGED cfgVars
    /\ healthy' = [healthy EXCEPT ![t] = (response[t] = "success_status")]
    /\ response' = [response EXCEPT ![t] = "none"]
    /\ pc' = [pc EXCEPT ![t] = "idle"]
    /\ ret' = [ret EXCEPT ![t] = "Ok"]
    /\ UNCHANGED <<child, lock, alive, nSpawned, op, running, taken, onlyStarts>>

\* The child process exits by itself; nothing in sidecar.rs waits on it.
ChildExit(p) ==
    /\ p \in alive
    /\ UNCHANGED cfgVars
    /\ alive' = alive \ {p}
    /\ UNCHANGED <<child, lock, nSpawned, pc, op, ret, running, healthy, taken, response, onlyStarts>>

SupStep(t) ==
    \/ StartCall(t) \/ StopCall(t) \/ RestartCall(t)
    \/ IsRunningCall(t) \/ StatusCall(t) \/ HealthCall(t)
    \/ StartLock(t) \/ StartCheck(t) \/ StartSpawnOk(t) \/ StartSpawnFail(t)
    \/ StartReturn(t)
    \/ StopLock(t) \/ StopTake(t) \/ StopKillOk(t) \/ StopKillFail(t)
    \/ RestartSleep(t)
    \/ IsRunningLock(t) \/ IsRunningRead(t) \/ HealthProbe(t) \/ HealthMatch(t)

\* ------------------------------------------------- config.rs: paths

\* A path is the sequence of the segments of an absolute path; <<>> is the root.
\* dirs::home_dir / document_dir / data_dir / config_dir of the user.
HomeDir == <<"home">>
DocumentDir == <<"home", "docs">>
DataDir == <<"home", "data">>
ConfigDir == <<"home", "config">>

\* validate_path, `allowed_bases`.
AllowedBases == {DocumentDir, DataDir, ConfigDir, HomeDir}

\* AppConfig::default, `docs_dir`: document_dir joined with "AutoDoc".
AppFolder == DocumentDir \o <<"AutoDoc">>

\* What the file system holds besides fsDirs: regular files, and symbolic links
\* with their targets (one to a system directory, one dangling).
FsFiles == {<<"etc", "passwd">>}
FsLinks ==
    (<<"home", "link">> :> <<"etc">>) @@ (<<"home", "dangling">> :> <<"etc", "nothing">>)

\* The directories of a fresh account: no application folder yet.
BaseDirs == {<<>>, <<"etc">>, HomeDir, DocumentDir, DataDir, ConfigDir}

\* The result of a failed canonicalization (no path has this segment).
Fail == <<"?">>

\* Number of symbolic links one resolution follows before giving up (ELOOP).
MaxLinkHops == 2

\* Longest path, in segments, that validate_path is given on its own.
MaxPathLen == 3

\* Path::canonicalize (realpath): every component must exist, symbolic links are
\* followed, "." and ".." are resolved on the way. `done` is the resolved prefix.
RECURSIVE Resolve(_, _, _)
Resolve(done, rest, hops) ==
    IF rest = <<>> THEN done
    ELSE LET h == Head(rest)
             t == Tail(rest)
             cand == Append(done, h)
         IN  IF h = "." THEN Resolve(done, t, hops)
             ELSE IF h = ".."
               THEN Resolve(IF done = <<>> THEN <<>> ELSE SubSeq(done, 1, Len(done) - 1),
                            t, hops)
             ELSE IF cand \in DOMAIN FsLinks
               THEN IF hops = 0 THEN Fail
                    ELSE Resolve(<<>>, FsLinks[cand] \o t, hops - 1)
             ELSE IF cand \in fsDirs THEN Resolve(cand, t, hops)
             ELSE IF cand \in FsFiles /\ t = <<>> THEN cand
             ELSE Fail

Canonicalize(path) == Resolve(<<>>, path, MaxLinkHops)

\* Path::components: "." segments are not components.
Components(path) == SelectSeq(path, LAMBDA seg : seg # ".")

\* Path::starts_with: a prefix of whole components.
starts_with(path, base) ==
    Len(base) <= Len(path) /\ SubSeq(path, 1, Len(base)) = base

PathOk(canonical) == [ok |-> TRUE, path |-> canonical, err |-> ""]
PathErr(kind) == [ok |-> FALSE, path |-> <<>>, err |-> kind]

\* A validate_path that compares the path as written, without canonicalizing it.
ValidatePathAsWritten(path) ==
    IF \E base \in AllowedBases : starts_with(Components(path), base)
      THEN PathOk(Components(path))
    ELSE PathErr("not_allowed")

\* validate_path: canonicalize the path, or its parent with the file name joined
\* when that fails; then the result must start with an allowed base.
validate_path(path) ==
    LET direct == Canonicalize(path)
        comps == Components(path)
        n == Len(comps)
        canonical ==
            IF direct # Fail THEN PathOk(direct)
            ELSE IF n = 0 THEN PathErr("invalid")               \* parent() is None
            ELSE IF comps[n] = ".." THEN PathErr("invalid")     \* file_name() is None
            ELSE LET parent == Canonicalize(SubSeq(comps, 1, n - 1))
                 IN  IF parent = Fail THEN PathErr("canonicalize")
                     ELSE PathOk(Append(parent, comps[n]))
    IN  IF ~canonical.ok THEN canonical
        ELSE IF \E base \in AllowedBases : starts_with(canonical.path, base)
          THEN canonical
        ELSE PathErr("not_allowed")

\* validate_storage_paths: the three paths in order, `?` returns the first error.
validate_storage_paths(cfg) ==
    LET a == validate_path(cfg.snapshot_storage_path)
        b == validate_path(cfg.screenshot_storage_path)
        c == validate_path(cfg.database_path)
    IN  IF ~a.ok THEN a ELSE IF ~b.ok THEN b ELSE IF ~c.ok THEN c ELSE PathOk(<<>>)

\* validate_auth_paths: each optional path only `if let Some`; an Option is <<>>
\* for None and <<x>> for Some(x).
validate_auth_paths(cfg) ==
    LET a == IF cfg.google_credentials_path # <<>>
               THEN validate_path(cfg.google_credentials_path[1]) ELSE PathOk(<<>>)
        b == IF cfg.google_token_path # <<>>
               THEN validate_path(cfg.google_token_path[1]) ELSE PathOk(<<>>)
    IN  IF ~a.ok THEN a ELSE IF ~b.ok THEN b ELSE PathOk(<<>>)

\* ---------------------------------------------- config.rs: the settings

\* AppConfig::default. The fields kept are the two secrets, the validated ones and
\* `language` for the plain settings that are stored as they are.
DefaultConfig ==
    [claude_api_key |-> "",
     target_password |-> <<>>,
     language |-> "zh-TW",
     google_credentials_path |-> <<>>,
     google_token_path |-> <<>>,
     max_depth |-> 5,
     max_pages |-> 100,
     snapshot_storage_path |-> AppFolder \o <<"snapshots">>,
     screenshot_storage_path |-> AppFolder \o <<"screenshots">>,
     database_path |-> AppFolder \o <<"autodoc.db">>]

\* AuthSettings: the fields marked #[serde(skip)].
SkipFields == {"claude_api_key", "target_password"}

\* A serializer that does not honour #[serde(skip)].
SerializeAll(cfg) == cfg

\* serde Serialize of AppConfig as derived: every field but the skipped ones.
Serialize(cfg) == [f \in (DOMAIN cfg) \ SkipFields |-> cfg[f]]

\* serde Deserialize of AppConfig: a field absent from the file (the skipped ones
\* always are) gets the Default of its type, String::new() and None.
Deserialize(file) ==
    [f \in DOMAIN DefaultConfig |->
        IF f \in DOMAIN file THEN file[f]
        ELSE IF f = "claude_api_key" THEN ""
        ELSE IF f = "target_password" THEN <<>>
        ELSE DefaultConfig[f]]

\* ------------------------------------------------- secure_storage.rs

CredKeys == {"claude_api_key", "target_password"}

\* A store_credential that, like save_config, leaves an empty value out.
StoreSkipsEmpty(kc, key, value, fault) ==
    IF fault THEN [ok |-> FALSE, kc |-> kc]
    ELSE IF value = "" THEN [ok |-> TRUE, kc |-> kc]
    ELSE [ok |-> TRUE, kc |-> [kc EXCEPT ![key] = <<value>>]]

\* store_credential: Entry::new then set_password; `fault` is the keychain refusing.
store_credential(kc, key, value, fault) ==
    IF fault THEN [ok |-> FALSE, kc |-> kc]
    ELSE [ok |-> TRUE, kc |-> [kc EXCEPT ![key] = <<value>>]]

\* get_credential: Entry::new then get_password; Err when there is no entry or the
\* keychain refuses.
get_credential(kc, key, fault) ==
    IF fault \/ kc[key] = <<>> THEN [ok |-> FALSE, value |-> ""]
    ELSE [ok |-> TRUE, value |-> kc[key][1]]

\* A migration that stores whatever value is present, the empty string included.
MigrateStoresEmpty(kc, key, plaintext_value, fault) ==
    IF plaintext_value # <<>>
      THEN [ok |-> store_credential(kc, key, plaintext_value[1], fault).ok,
            migrated |-> TRUE,
            kc |-> store_credential(kc, key, plaintext_value[1], fault).kc]
      ELSE [ok |-> TRUE, migrated |-> FALSE, kc |-> kc]

\* migrate_credential_to_keychain(key, plaintext_value): a value that is Some and
\* not empty is stored (`?`) and Ok(true) returned; otherwise Ok(false).
migrate_credential_to_keychain(kc, key, plaintext_value, fault) ==
    IF plaintext_value # <<>> /\ plaintext_value[1] # ""
      THEN [ok |-> store_credential(kc, key, plaintext_value[1], fault).ok,
            migrated |-> TRUE,
            kc |-> store_credential(kc, key, plaintext_value[1], fault).kc]
      ELSE [ok |-> TRUE, migrated |-> FALSE, kc |-> kc]

\* has_credential: Entry::new then get_password().is_ok(); false when the entry
\* cannot be opened.
has_credential(kc, key, fault) ==
    IF fault THEN FALSE ELSE kc[key] # <<>>

\* A delete_credential that reports the missing entry as an error.
DeleteReportsMissing(kc, key, entryFault, deleteFault) ==
    IF entryFault \/ deleteFault \/ kc[key] = <<>> THEN [ok |-> FALSE, kc |-> kc]
    ELSE [ok |-> TRUE, kc |-> [kc EXCEPT ![key] = <<>>]]

\* delete_credential: an Entry::new failure is the only Err; any delete_password
\* result, the missing entry included, is Ok.
delete_credential(kc, key, entryFault, deleteFault) ==
    IF entryFault THEN [ok |-> FALSE, kc |-> kc]
    ELSE IF deleteFault THEN [ok |-> TRUE, kc |-> kc]
    ELSE [ok |-> TRUE, kc |-> [kc EXCEPT ![key] = <<>>]]

\* ------------------------------------------- config.rs: the commands

\* save_config with the credential push ahead of the path validation.
SaveEffectPushesFirst(cfg, fault) ==
    LET sp == validate_storage_paths(cfg)
        ap == validate_auth_paths(cfg)
        k == IF cfg.claude_api_key # ""
               THEN store_credential(keychain, "claude_api_key", cfg.claude_api_key,
                                     fault = "store_key")
               ELSE [ok |-> TRUE, kc |-> keychain]
    IN  IF ~k.ok THEN [ok |-> FALSE, err |-> "keychain", kc |-> keychain, file |-> cfgFile]
        ELSE IF ~sp.ok \/ ~ap.ok
          THEN [ok |-> FALSE, err |-> "path", kc |-> k.kc, file |-> cfgFile]
        ELSE IF fault = "write"
          THEN [ok |-> FALSE, err |-> "write", kc |-> k.kc, file |-> cfgFile]
        ELSE [ok |-> TRUE, err |-> "", kc |-> k.kc,
              file |-> <<Serialize([cfg EXCEPT !.claude_api_key = "",
                                               !.target_password = <<>>])>>]

\* A save_config that removes the stored secret of a field it is given empty.
SaveEffectClearsEmpty(cfg, fault) ==
    LET sp == validate_storage_paths(cfg)
        ap == validate_auth_paths(cfg)
        k == IF cfg.claude_api_key # ""
               THEN store_credential(keychain, "claude_api_key", cfg.claude_api_key,
                                     fault = "store_key")
               ELSE [ok |-> TRUE, kc |-> [keychain EXCEPT !["claude_api_key"] = <<>>]]
        p == IF cfg.target_password # <<>> /\ cfg.target_password # <<"">>
               THEN store_credential(k.kc, "target_password", cfg.target_password[1],
                                     fault = "store_password")
               ELSE [ok |-> TRUE, kc |-> [k.kc EXCEPT !["target_password"] = <<>>]]
        config_to_save == [cfg EXCEPT !.claude_api_key = "", !.target_password = <<>>]
    IN  IF ~sp.ok THEN [ok |-> FALSE, err |-> "path", kc |-> keychain, file |-> cfgFile]
        ELSE IF ~ap.ok THEN [ok |-> FALSE, err |-> "path", kc |-> keychain, file |-> cfgFile]
        ELSE IF ~k.ok THEN [ok |-> FALSE, err |-> "keychain", kc |-> keychain, file |-> cfgFile]
        ELSE IF ~p.ok THEN [ok |-> FALSE, err |-> "keychain", kc |-> k.kc, file |-> cfgFile]
        ELSE IF fault = "write"
          THEN [ok |-> FALSE, err |-> "write", kc |-> p.kc, file |-> cfgFile]
        ELSE [ok |-> TRUE, err |-> "", kc |-> p.kc, file |-> <<Serialize(config_to_save)>>]

\* save_config(config): validate the storage and the auth paths; push the non-empty
\* secrets to the keychain; confy::store a clone with the secrets cleared. Each `?`
\* returns at once, with what was done before it left in place. `fault` is the
\* one operation the environment makes fail, if the call gets to it: the store of
\* the key, the store of the password, the file write, or none.
SaveEffect(cfg, fault) ==
    LET sp == validate_storage_paths(cfg)
        ap == validate_auth_paths(cfg)
        k == IF cfg.claude_api_key # ""
               THEN store_credential(keychain, "claude_api_key", cfg.claude_api_key,
                                     fault = "store_key")
               ELSE [ok |-> TRUE, kc |-> keychain]
        p == IF cfg.target_password # <<>> /\ cfg.target_password # <<"">>
               THEN store_credential(k.kc, "target_password", cfg.target_password[1],
                                     fault = "store_password")
               ELSE [ok |-> TRUE, kc |-> k.kc]
        config_to_save == [cfg EXCEPT !.claude_api_key = "", !.target_password = <<>>]
    IN  IF ~sp.ok THEN [ok |-> FALSE, err |-> "path", kc |-> keychain, file |-> cfgFile]
        ELSE IF ~ap.ok THEN [ok |-> FALSE, err |-> "path", kc |-> keychain, file |-> cfgFile]
        ELSE IF ~k.ok THEN [ok |-> FALSE, err |-> "keychain", kc |-> keychain, file |-> cfgFile]
        ELSE IF ~p.ok THEN [ok |-> FALSE, err |-> "keychain", kc |-> k.kc, file |-> cfgFile]
        ELSE IF fault = "write"
          THEN [ok |-> FALSE, err |-> "write", kc |-> p.kc, file |-> cfgFile]
        ELSE [ok |-> TRUE, err |-> "", kc |-> p.kc, file |-> <<Serialize(config_to_save)>>]

\* A save_config that creates the snapshot directory once it has succeeded.
SaveDirsWithSnapshot(cfg, ok) ==
    IF ok THEN fsDirs \cup {validate_path(cfg.snapshot_storage_path).path} ELSE fsDirs

\* The directories after save_config: it validates the paths, pushes the secrets
\* and stores the file, and calls nothing that creates a directory.
SaveDirs(cfg, ok) == fsDirs

\* A load_config that fails when a secret cannot be retrieved.
LoadEffectNeedsSecrets(readFault, keyFault, pwFault) ==
    IF readFault THEN [ok |-> FALSE, err |-> "load", cfg |-> <<>>, file |-> cfgFile]
    ELSE LET file == IF cfgFile = <<>> THEN <<Serialize(DefaultConfig)>> ELSE cfgFile
             config == Deserialize(file[1])
             a == get_credential(keychain, "claude_api_key", keyFault)
             b == get_credential(keychain, "target_password", pwFault)
         IN  IF ~a.ok \/ ~b.ok
               THEN [ok |-> FALSE, err |-> "keychain", cfg |-> <<>>, file |-> file]
               ELSE [ok |-> TRUE, err |-> "",
                     cfg |-> <<[config EXCEPT !.claude_api_key = a.value,
                                              !.target_password = <<b.value>>]>>,
                     file |-> file]

\* load_config that takes the secrets from the file only.
LoadEffectFileOnly(readFault, keyFault, pwFault) ==
    IF readFault THEN [ok |-> FALSE, err |-> "load", cfg |-> <<>>, file |-> cfgFile]
    ELSE LET file == IF cfgFile = <<>> THEN <<Serialize(DefaultConfig)>> ELSE cfgFile
         IN  [ok |-> TRUE, err |-> "", cfg |-> <<Deserialize(file[1])>>, file |-> file]

\* load_config(): confy::load reads the file, or stores and returns the default
\* when there is none; then each secret is overlaid `if let Ok` from the keychain.
\* The faults are the file read failing and the keychain refusing a get.
LoadEffect(readFault, keyFault, pwFault) ==
    IF readFault THEN [ok |-> FALSE, err |-> "load", cfg |-> <<>>, file |-> cfgFile]
    ELSE LET file == IF cfgFile = <<>> THEN <<Serialize(DefaultConfig)>> ELSE cfgFile
             config == Deserialize(file[1])
             a == get_credential(keychain, "claude_api_key", keyFault)
             b == get_credential(keychain, "target_password", pwFault)
             withKey == IF a.ok THEN [config EXCEPT !.claude_api_key = a.value] ELSE config
             loaded == IF b.ok THEN [withKey EXCEPT !.target_password = <<b.value>>]
                       ELSE withKey
         IN  [ok |-> TRUE, err |-> "", cfg |-> <<loaded>>, file |-> file]

\* The values the commands are invoked with: every key and password, with every
\* choice of at most one path field set to a path outside the allowed bases, the
\* optional auth paths not so chosen being all absent or all present.
ApiKeys == {"", "sk-a", "xx"}
Passwords == {<<>>, <<"">>, <<"pw">>}
CredValues == {"", "sk-a"}
BadPath == <<"etc", "passwd">>
AuthFile == ConfigDir \o <<"google.json">>
StorageFields == {"snapshot_storage_path", "screenshot_storage_path", "database_path"}
AuthFields == {"google_credentials_path", "google_token_path"}
BadPathSets == {{}} \cup {{f} : f \in StorageFields \cup AuthFields}
Settings(key, password, bad, auth) ==
    [f \in DOMAIN DefaultConfig |->
        IF f = "claude_api_key" THEN key
        ELSE IF f = "target_password" THEN password
        ELSE IF f \in StorageFields THEN (IF f \in bad THEN BadPath ELSE DefaultConfig[f])
        ELSE IF f \in AuthFields
          THEN (IF f \in bad THEN <<BadPath>> ELSE IF auth THEN <<AuthFile>> ELSE <<>>)
        ELSE DefaultConfig[f]]
SaveInputs ==
    {Settings(i[1], i[2], i[3], i[4]) :
        i \in ApiKeys \X Passwords \X BadPathSets \X BOOLEAN}

\* A request carries the settings of save_config, a response those of load_config,
\* as Options: <<>> when the command has none.
NoReq == [cmd |-> "none", cfg |-> <<>>, key |-> "", value |-> ""]
NoResp == [ok |-> TRUE, err |-> "", cfg |-> <<>>, value |-> <<>>]
Handled(cmd, ok, key, pw, unread) ==
    [cmd |-> cmd, ok |-> ok, key |-> key, pw |-> pw, unread |-> unread,
     name |-> "", value |-> "", before |-> <<>>]
\* `last` keeps the secrets of a save_config that returned Ok, and the keys whose
\* keychain entry could not be opened or read during the command. For a
\* credential command it also keeps the key and the value it was called with and
\* the entry of that key when it began.
OnCredential(cmd, ok, unread) ==
    [Handled(cmd, ok, "", <<>>, unread) EXCEPT
        !.name = req.key, !.value = req.value, !.before = keychain[req.key]]

\* First run: no keychain entry, no configuration file, no application folder.
CfgInit ==
    /\ keychain = [k \in CredKeys |-> <<>>]
    /\ cfgFile = <<>>
    /\ fsDirs = BaseDirs
    /\ req = NoReq
    /\ resp = NoResp
    /\ last = Handled("none", TRUE, "", <<>>, {})

\* The UI invokes a command; the handlers run one at a time.
Invoke(request) ==
    /\ req.cmd = "none"
    /\ req' = request
    /\ UNCHANGED <<keychain, cfgFile, fsDirs, resp, last>>
    /\ UNCHANGED <<supVars, validated>>

SaveConfigCall(cfg) == Invoke([NoReq EXCEPT !.cmd = "save_config", !.cfg = <<cfg>>])
ResetConfigCall == Invoke([NoReq EXCEPT !.cmd = "reset_config"])
LoadConfigCall == Invoke([NoReq EXCEPT !.cmd = "load_config"])
StoreCredentialCall(key, value) ==
    Invoke([NoReq EXCEPT !.cmd = "store_credential", !.key = key, !.value = value])
DeleteCredentialCall(key) == Invoke([NoReq EXCEPT !.cmd = "delete_credential", !.key = key])
GetCredentialCall(key) == Invoke([NoReq EXCEPT !.cmd = "get_credential", !.key = key])
HasCredentialCall(key) == Invoke([NoReq EXCEPT !.cmd = "has_credential", !.key = key])

SaveFaults == {"none", "store_key", "store_password", "write"}

\* The handler of save_config.
SaveConfig ==
    /\ req.cmd = "save_config"
    /\ \E fault \in SaveFaults :
         \E e \in {SaveEffect(req.cfg[1], fault)} :
             /\ keychain' = e.kc
             /\ cfgFile' = e.file
             /\ resp' = [ok |-> e.ok, err |-> e.err, cfg |-> <<>>, value |-> <<>>]
             /\ last' = IF e.ok
                          THEN Handled("save_config", TRUE, req.cfg[1].claude_api_key,
                                       req.cfg[1].target_password, {})
                          ELSE Handled("save_config", FALSE, "", <<>>, {})
             /\ fsDirs' = SaveDirs(req.cfg[1], e.ok)
    /\ req' = NoReq
    /\ UNCHANGED <<supVars, validated>>

\* The handler of reset_config: save_config(AppConfig::default()).
ResetConfig ==
    /\ req.cmd = "reset_config"
    /\ \E fault \in SaveFaults :
         \E e \in {SaveEffect(DefaultConfig, fault)} :
             /\ keychain' = e.kc
             /\ cfgFile' = e.file
             /\ resp' = [ok |-> e.ok, err |-> e.err, cfg |-> <<>>, value |-> <<>>]
             /\ last' = Handled("reset_config", e.ok, "", <<>>, {})
             /\ fsDirs' = SaveDirs(DefaultConfig, e.ok)
    /\ req' = NoReq
    /\ UNCHANGED <<supVars, validated>>

\* The handler of load_config.
LoadConfig ==
    /\ req.cmd = "load_config"
    /\ \E readFault, keyFault, pwFault \in BOOLEAN :
         \E e \in {LoadEffect(readFault, keyFault, pwFault)} :
             /\ cfgFile' = e.file
             /\ resp' = [ok |-> e.ok, err |-> e.err, cfg |-> e.cfg, value |-> <<>>]
             /\ last' = Handled("load_config", e.ok, "", <<>>,
                                {k \in CredKeys :
                                    \/ k = "claude_api_key" /\ keyFault
                                    \/ k = "target_password" /\ pwFault})
    /\ req' = NoReq
    /\ UNCHANGED <<keychain, fsDirs>>
    /\ UNCHANGED <<supVars, validated>>

\* The handler of store_secure_credential.
StoreCredential ==
    /\ req.cmd = "store_credential"
    /\ \E fault \in BOOLEAN :
         \E e \in {store_credential(keychain, req.key, req.value, fault)} :
             /\ keychain' = e.kc
             /\ resp' = [ok |-> e.ok, err |-> IF e.ok THEN "" ELSE "keychain",
                         cfg |-> <<>>, value |-> <<>>]
             /\ last' = OnCredential("store_credential", e.ok, {})
    /\ req' = NoReq
    /\ UNCHANGED <<cfgFile, fsDirs>>
    /\ UNCHANGED <<supVars, validated>>

\* The handler of delete_secure_credential.
DeleteCredential ==
    /\ req.cmd = "delete_credential"
    /\ \E entryFault, deleteFault \in BOOLEAN :
         \E e \in {delete_credential(keychain, req.key, entryFault, deleteFault)} :
             /\ keychain' = e.kc
             /\ resp' = [ok |-> e.ok, err |-> IF e.ok THEN "" ELSE "keychain",
                         cfg |-> <<>>, value |-> <<>>]
             /\ last' = OnCredential("delete_credential", e.ok,
                                     IF entryFault THEN {req.key} ELSE {})
    /\ req' = NoReq
    /\ UNCHANGED <<cfgFile, fsDirs>>
    /\ UNCHANGED <<supVars, validated>>

\* The handler of get_secure_credential.
GetCredential ==
    /\ req.cmd = "get_credential"
    /\ \E fault \in BOOLEAN :
         \E e \in {get_credential(keychain, req.key, fault)} :
             /\ resp' = [ok |-> e.ok, err |-> IF e.ok THEN "" ELSE "keychain",
                         cfg |-> <<>>, value |-> IF e.ok THEN <<e.value>> ELSE <<>>]
             /\ last' = OnCredential("get_credential", e.ok,
                                     IF fault THEN {req.key} ELSE {})
    /\ req' = NoReq
    /\ UNCHANGED <<keychain, cfgFile, fsDirs>>
    /\ UNCHANGED <<supVars, validated>>

\* The handler of has_secure_credential: Ok(has_credential(&key)).
HasCredential ==
    /\ req.cmd = "has_credential"
    /\ \E fault \in BOOLEAN :
         /\ resp' = [ok |-> TRUE, err |-> "", cfg |-> <<>>,
                     value |-> <<has_credential(keychain, req.key, fault)>>]
         /\ last' = OnCredential("has_credential", TRUE, IF fault THEN {req.key} ELSE {})
    /\ req' = NoReq
    /\ UNCHANGED <<keychain, cfgFile, fsDirs>>
    /\ UNCHANGED <<supVars, validated>>

\* The values migrate_credential_to_keychain is given: None, Some("") and a secret.
PlaintextValues == {<<>>} \cup {<<v>> : v \in CredValues}

\* A caller starts a migration; the request carries the Option it passes.
MigrateCredentialCall(key, plaintext_value) ==
    Invoke([NoReq EXCEPT !.cmd = "migrate_credential", !.key = key,
                         !.value = plaintext_value])

\* The run of migrate_credential_to_keychain; the answer carries the returned bool.
MigrateCredential ==
    /\ req.cmd = "migrate_credential"
    /\ \E fault \in BOOLEAN :
         \E e \in {migrate_credential_to_keychain(keychain, req.key, req.value, fault)} :
             /\ keychain' = e.kc
             /\ resp' = [ok |-> e.ok, err |-> IF e.ok THEN "" ELSE "keychain",
                         cfg |-> <<>>, value |-> IF e.ok THEN <<e.migrated>> ELSE <<>>]
             /\ last' = OnCredential("migrate_credential", e.ok,
                                     IF fault THEN {req.key} ELSE {})
    /\ req' = NoReq
    /\ UNCHANGED <<cfgFile, fsDirs>>
    /\ UNCHANGED <<supVars, validated>>

\* The application folder <documents>/AutoDoc gets created outside the commands.
CreateAppFolder ==
    /\ AppFolder \notin fsDirs
    /\ fsDirs' = fsDirs \cup {AppFolder}
    /\ UNCHANGED <<keychain, cfgFile, req, resp, last>>
    /\ UNCHANGED <<supVars, validated>>

CfgNext ==
    \/ \E cfg \in SaveInputs : SaveConfigCall(cfg)
    \/ ResetConfigCall
    \/ LoadConfigCall
    \/ \E key \in CredKeys, value \in CredValues : StoreCredentialCall(key, value)
    \/ \E key \in CredKeys : DeleteCredentialCall(key)
    \/ \E key \in CredKeys : GetCredentialCall(key)
    \/ \E key \in CredKeys : HasCredentialCall(key)
    \/ \E key \in CredKeys, value \in PlaintextValues : MigrateCredentialCall(key, value)
    \/ SaveConfig
    \/ ResetConfig
    \/ LoadConfig
    \/ StoreCredential
    \/ DeleteCredential
    \/ GetCredential
    \/ HasCredential
    \/ MigrateCredential
    \/ CreateAppFolder

\* No call of validate_path on its own.
NoValidation == [path |-> <<>>, result |-> PathErr("none")]

Init == SupInit /\ CfgInit /\ validated = NoValidation

\* The paths validate_path is given: every absolute path of at most MaxPathLen
\* segments over the names of the file system, a name that does not exist, "."
\* and "..".
PathSegments ==
    {"home", "docs", "data", "config", "AutoDoc", "etc", "passwd", "link", "dangling",
     "new", ".", ".."}
PathInputs == UNION {[1..n -> PathSegments] : n \in 0..MaxPathLen}

\* A validate_path call that has its argument and has not returned.
Pending(path) == [path |-> path, result |-> PathErr("pending")]

\* validate_path is given any of the paths, in a file system without the
\* application folder.
PathInit == SupInit /\ CfgInit /\ validated \in {Pending(path) : path \in PathInputs}

\* validate_path(path) runs, against the file system as it is.
ValidatePath ==
    /\ validated = Pending(validated.path)
    /\ validated' = [validated EXCEPT !.result = validate_path(validated.path)]
    /\ UNCHANGED <<keychain, cfgFile, fsDirs, req, resp, last>>
    /\ UNCHANGED supVars

PathNext ==
    \/ ValidatePath
    \/ CreateAppFolder

\* ----------------------------------------- config.rs: validate_config

\* The characters of the API keys the model uses.
KeyChars(key) ==
    CASE key = "" -> <<>>
      [] key = "sk" -> <<"s", "k">>
      [] key = "sk-" -> <<"s", "k", "-">>
      [] key = "sk-a" -> <<"s", "k", "-", "a">>
      [] key = "xx" -> <<"x", "x">>
      [] key = "xsk-" -> <<"x", "s", "k", "-">>

\* claude_api_key.starts_with("sk-").
StartsWithSk(key) ==
    Len(KeyChars(key)) >= 3 /\ SubSeq(KeyChars(key), 1, 3) = <<"s", "k", "-">>

\* validate_config, the API key rule: empty, else wrong format.
ApiKeyErrors(key) ==
    IF key = "" THEN <<"api_key_empty">>
    ELSE IF ~StartsWithSk(key) THEN <<"api_key_format">>
    ELSE <<>>

\* A depth rule that takes the upper bound itself for too large.
DepthErrorsOffByOne(max_depth) ==
    IF max_depth = 0 \/ max_depth >= 10 THEN <<"max_depth">> ELSE <<>>

\* validate_config, `max_depth == 0 || max_depth > 10`.
DepthErrors(max_depth) ==
    IF max_depth = 0 \/ max_depth > 10 THEN <<"max_depth">> ELSE <<>>

\* validate_config, `max_pages < 10 || max_pages > 1000`.
PagesErrors(max_pages) ==
    IF max_pages < 10 \/ max_pages > 1000 THEN <<"max_pages">> ELSE <<>>

\* A validate_config that stops at the first rule that is violated.
RuleErrorsFailFast(cfg) ==
    IF ApiKeyErrors(cfg.claude_api_key) # <<>> THEN ApiKeyErrors(cfg.claude_api_key)
    ELSE IF DepthErrors(cfg.max_depth) # <<>> THEN DepthErrors(cfg.max_depth)
    ELSE IF PagesErrors(cfg.max_pages) # <<>> THEN PagesErrors(cfg.max_pages)
    ELSE IF ~validate_storage_paths(cfg).ok THEN <<"storage_path">>
    ELSE IF ~validate_auth_paths(cfg).ok THEN <<"auth_path">>
    ELSE <<>>

\* validate_config, the `errors` vector: one message for the key, one for each
\* bound, one for the storage group and one for the auth group, each pushed when
\* its check fails; a group's message is the first error of the group.
RuleErrors(cfg) ==
    ApiKeyErrors(cfg.claude_api_key)
        \o DepthErrors(cfg.max_depth)
        \o PagesErrors(cfg.max_pages)
        \o (IF ~validate_storage_paths(cfg).ok THEN <<"storage_path">> ELSE <<>>)
        \o (IF ~validate_auth_paths(cfg).ok THEN <<"auth_path">> ELSE <<>>)

\* Path::exists: the path resolves, links followed.
Exists(path) == Canonicalize(path) # Fail

\* std::fs::create_dir_all: the directory and every missing ancestor.
create_dir_all(dirs, path) == dirs \cup {SubSeq(path, 1, i) : i \in 0..Len(path)}

\* create_dir_all returns an error when the file system refuses (`mkdirFault`) or
\* when the name is taken by something that is not a directory: here, a link to
\* nothing, which `exists` does not see.
CreateFails(path, mkdirFault) == mkdirFault \/ path \in DOMAIN FsLinks

Verdict(ok, messages, dirs) == [ok |-> ok, messages |-> messages, dirs |-> dirs]

\* A validate_config that creates the snapshot directory whatever the rules say,
\* as soon as its path is valid.
ValidateConfigCreatesAnyway(cfg, mkdirFault) ==
    LET errors == RuleErrors(cfg)
        snapshot == validate_path(cfg.snapshot_storage_path)
        dirs == IF snapshot.ok /\ ~CreateFails(snapshot.path, mkdirFault)
                  THEN create_dir_all(fsDirs, snapshot.path) ELSE fsDirs
    IN  IF errors # <<>> THEN Verdict(FALSE, errors, dirs)
        ELSE IF ~snapshot.ok THEN Verdict(FALSE, <<"snapshot_path">>, fsDirs)
        ELSE IF Exists(snapshot.path) THEN Verdict(TRUE, <<"passed">>, fsDirs)
        ELSE IF CreateFails(snapshot.path, mkdirFault)
          THEN Verdict(FALSE, <<"create_dir">>, fsDirs)
        ELSE Verdict(TRUE, <<"passed">>, dirs)

\* validate_config(config): collect the violated rules; when there is none,
\* validate the snapshot path again and create_dir_all it unless it exists (`?` on
\* both); Ok(passed) when errors is empty, Err(errors joined) otherwise.
\* `mkdirFault` is the file system refusing to create the directory.
validate_config(cfg, mkdirFault) ==
    LET errors == RuleErrors(cfg)
        snapshot == validate_path(cfg.snapshot_storage_path)
    IN  IF errors # <<>> THEN Verdict(FALSE, errors, fsDirs)
        ELSE IF ~snapshot.ok THEN Verdict(FALSE, <<"snapshot_path">>, fsDirs)
        ELSE IF Exists(snapshot.path) THEN Verdict(TRUE, <<"passed">>, fsDirs)
        ELSE IF CreateFails(snapshot.path, mkdirFault)
          THEN Verdict(FALSE, <<"create_dir">>, fsDirs)
        ELSE Verdict(TRUE, <<"passed">>, create_dir_all(fsDirs, snapshot.path))

\* The settings validate_config is given: every key, the bounds of the two limits
\* with their neighbours, every choice of path fields set to a path outside the
\* allowed bases, and the snapshot path at its default or at a link to nothing.
ValidateKeys == {"", "sk", "sk-", "sk-a", "xx", "xsk-"}
Depths == {0, 1, 5, 10, 11}
Pages == {5, 9, 10, 100, 1000, 1001}
DanglingPath == HomeDir \o <<"dangling">>
ValidateInputs ==
    {[Settings(i[1], <<>>, i[4], i[5]) EXCEPT
          !.max_depth = i[2], !.max_pages = i[3],
          !.snapshot_storage_path = IF i[6] THEN DanglingPath ELSE @] :
        i \in ValidateKeys \X Depths \X Pages
              \X (SUBSET (StorageFields \cup AuthFields)) \X BOOLEAN \X BOOLEAN}

\* The file systems validate_config runs against: a first run, the application
\* folder created, the snapshot directory created in it.
SnapshotDir == AppFolder \o <<"snapshots">>
FsStates == {BaseDirs, BaseDirs \cup {AppFolder}, BaseDirs \cup {AppFolder, SnapshotDir}}

ValidateConfigRequest(cfg) == [NoReq EXCEPT !.cmd = "validate_config", !.cfg = <<cfg>>]

\* validate_config has been invoked with any of the settings, in any of the file
\* systems; nothing is stored yet.
ValidateInit ==
    /\ SupInit
    /\ keychain = [k \in CredKeys |-> <<>>]
    /\ cfgFile = <<>>
    /\ fsDirs \in FsStates
    /\ req \in {ValidateConfigRequest(cfg) : cfg \in ValidateInputs}
    /\ resp = NoResp
    /\ last = Handled("none", TRUE, "", <<>>, {})
    /\ validated = NoValidation

\* The handler of validate_config. `last` keeps the settings it was given, the
\* directories that existed when it began, and whether the file system refused to
\* create a directory.
ValidateConfig ==
    /\ req.cmd = "validate_config"
    /\ \E mkdirFault \in BOOLEAN :
         \E e \in {validate_config(req.cfg[1], mkdirFault)} :
             /\ fsDirs' = e.dirs
             /\ resp' = [ok |-> e.ok, err |-> IF e.ok THEN "" ELSE "validation",
                         cfg |-> <<>>, value |-> e.messages]
             /\ last' = [Handled("validate_config", e.ok, "", <<>>,
                                 IF mkdirFault THEN {"create_dir"} ELSE {})
                            EXCEPT !.before = <<[cfg |-> req.cfg[1], dirs |-> fsDirs]>>]
    /\ req' = NoReq
    /\ UNCHANGED <<keychain, cfgFile>>
    /\ UNCHANGED <<supVars, validated>>

ValidateNext ==
    \/ ValidateConfig
    \/ CreateAppFolder

Next ==
    \/ \E t \in Threads : SupStep(t)
    \/ \E p \in Pids : ChildExit(p)

\* The supervisor called from NumThreads threads.
Spec == Init /\ [][Next]_vars

\* The steps of a call that is running: everything but the dispatch of a command
\* and the wait for the lock.
Runs(t) ==
    \/ StartCheck(t) \/ StartSpawnOk(t) \/ StartSpawnFail(t) \/ StartReturn(t)
    \/ StopTake(t) \/ StopKillOk(t) \/ StopKillFail(t)
    \/ RestartSleep(t)
    \/ IsRunningRead(t) \/ HealthProbe(t) \/ HealthMatch(t)

\* lock() returning to thread t.
Locks(t) == StartLock(t) \/ StopLock(t) \/ IsRunningLock(t)

\* The supervisor under fair scheduling: a thread that can run does run (spawn, kill,
\* the sleeps and the health request with its 5 s timeout all come back), and a
\* thread that finds the lock free again and again gets it in the end.
FairSpec ==
    /\ Spec
    /\ \A t \in Threads : WF_vars(Runs(t)) /\ SF_vars(Locks(t))

\* The configuration commands, handled one at a time.
CfgSpec == Init /\ [][CfgNext]_vars

\* validate_path applied to every path, before and after the application folder
\* is created.
PathSpec == PathInit /\ [][PathNext]_vars

\* validate_config applied to every settings value in every file system.
ValidateSpec == ValidateInit /\ [][ValidateNext]_vars

\* ----------------------------------------------- supervisor properties

\* Thread t takes the step that leaves program point `at`.
Leaves(t, at) == pc[t] = at /\ pc'[t] # at

\* Thread t's call returns in this step.
Returns(t) == pc[t] # "idle" /\ pc'[t] = "idle"

\* No thread but t has ever called the supervisor.
OnlyCaller(t) == \A u \in Threads \ {t} : op[u] = "none"

\* C1: at most one process spawned by the supervisor is alive, in every reachable
\* state, kill and spawn failures included.
SingleInstance == Cardinality(alive) <= 1

\* C5: a start whose check finds a handle returns the already-running error, spawns
\* nothing and leaves the handle as it was.
StartRejectedWhileHeld ==
    [][\A t \in Threads :
        (Leaves(t, "start_check") /\ child # NoChild) =>
            /\ Returns(t)
            /\ ret'[t] = "AlreadyRunning"
            /\ child' = child
            /\ nSpawned' = nSpawned
            /\ alive' = alive]_vars

\* C5 witness: a start_backend call has been rejected and the handle is still held.
StartWasRejected ==
    \E t \in Threads :
        /\ op[t] = "start" /\ pc[t] = "idle" /\ ret[t] = "AlreadyRunning"
        /\ child # NoChild

\* C6 as stated: stop without a handle is the not-running error and the supervisor
\* stays Stopped; stop with a handle terminates that process and leaves no handle.
StopTerminatesHeldProcess ==
    [][\A t \in Threads :
        /\ (Leaves(t, "stop_take") /\ child = NoChild) =>
              /\ child' = NoChild
              /\ op[t] = "stop" => (Returns(t) /\ ret'[t] = "NotRunning")
        /\ (Leaves(t, "stop_kill") /\ op[t] = "stop") =>
              /\ child' = NoChild
              /\ taken[t] \notin alive']_vars

\* C6 amended: stop without a handle is the not-running error and changes nothing;
\* stop with a handle always leaves the handle absent, terminates the process when
\* the kill succeeds (Ok) and returns the kill-failed error, the process untouched,
\* when it does not.
StopClearsHandle ==
    [][\A t \in Threads :
        /\ (Leaves(t, "stop_take") /\ child = NoChild) =>
              /\ child' = NoChild /\ alive' = alive
              /\ op[t] = "stop" => (Returns(t) /\ ret'[t] = "NotRunning")
        /\ (Leaves(t, "stop_take") /\ child # NoChild) =>
              /\ child' = NoChild /\ taken'[t] = child /\ ~Returns(t)
        /\ (Leaves(t, "stop_kill") /\ op[t] = "stop") =>
              /\ child' = NoChild
              /\ Returns(t)
              /\ ret'[t] \in {"Ok", "KillFailed"}
              /\ ret'[t] = "Ok" => taken[t] \notin alive'
              /\ ret'[t] = "KillFailed" => alive' = alive]_vars

\* C6 witness: a stop_backend call found a handle, could not kill the process and
\* returned with the handle absent and the process alive.
StopFailedToKill ==
    \E t \in Threads :
        /\ op[t] = "stop" /\ pc[t] = "idle" /\ ret[t] = "KillFailed"
        /\ child = NoChild /\ alive # {}

\* C7: restart never returns the result of its stop phase; when no other thread
\* calls the supervisor it fails only with the spawn error, and a restart that
\* returned Ok leaves a handle held.
RestartReportsStartOnly ==
    \A t \in Threads :
        (op[t] = "restart" /\ pc[t] = "idle") =>
            /\ ret[t] \in {"Ok", "AlreadyRunning", "SpawnFailed"}
            /\ OnlyCaller(t) =>
                  /\ ret[t] \in {"Ok", "SpawnFailed"}
                  /\ ret[t] = "Ok" => child # NoChild
                  /\ ret[t] = "SpawnFailed" => child = NoChild

\* C7 witness: the only caller's restart returned Ok having spawned the first
\* process ever, so nothing was running before it.
RestartFromStopped ==
    \E t \in Threads :
        /\ op[t] = "restart" /\ pc[t] = "idle" /\ ret[t] = "Ok"
        /\ OnlyCaller(t)
        /\ nSpawned = 1 /\ child = 1

\* C8 as stated: once the child has exited by itself the handle counts as absent:
\* is_running reports false and start is not rejected.
ExitClearsHandle ==
    [][\A t \in Threads :
        /\ (Leaves(t, "isrun_read") /\ child \notin alive) => ~running'[t]
        /\ (Leaves(t, "start_check") /\ child \notin alive) =>
              ret'[t] # "AlreadyRunning"]_vars

\* C8 amended: the handle goes absent -> spawned only by the spawn of a start and
\* spawned -> absent only by the take of a stop; the exit of the child does not
\* touch it, so is_running reports whether a handle is held, alive or not.
HandleLifecycle ==
    [][/\ (child = NoChild /\ child' # NoChild) =>
            \E t \in Threads : Leaves(t, "start_spawn") /\ child' \in alive'
       /\ (child # NoChild /\ child' # child) =>
            /\ child' = NoChild
            /\ \E t \in Threads : Leaves(t, "stop_take") /\ taken'[t] = child
       /\ \A t \in Threads :
            Leaves(t, "isrun_read") => running'[t] = (child # NoChild)]_vars

\* C8 witness: a handle is held for a process that has exited, and is_running has
\* answered true.
HandleOfExitedChild ==
    \E t \in Threads :
        /\ child # NoChild /\ child \notin alive
        /\ op[t] = "is_running" /\ pc[t] = "idle" /\ running[t]

\* C9 as stated: a get_backend_status that returns while no handle is held and no
\* other call is in progress (start never spawned, or the last stop has completed)
\* returns {running: false, healthy: false}, whatever ran concurrently with it.
StatusFalseOnceStopped ==
    [][\A t \in Threads :
        (/\ op[t] = "get_status" /\ Returns(t)
         /\ child = NoChild
         /\ \A u \in Threads \ {t} : pc[u] = "idle" /\ ret[u] # "KillFailed") =>
            (~running'[t] /\ ~healthy'[t])]_vars

\* C9 amended: running is whether a handle was held at the moment of the is_running
\* read; the probe is issued only after a read of true, healthy is never true with
\* running false, and before any spawn the answer is {false, false}.
StatusReflectsRead ==
    /\ [][\A t \in Threads :
            Leaves(t, "isrun_read") =>
                /\ running'[t] = (child # NoChild)
                /\ op[t] = "get_status" =>
                      IF child # NoChild
                        THEN pc'[t] = "health_probe"
                        ELSE Returns(t) /\ ~healthy'[t]]_vars
    /\ [](\A t \in Threads :
            op[t] = "get_status" =>
                /\ pc[t] = "health_probe" => running[t]
                /\ healthy[t] => running[t]
                /\ (pc[t] = "idle" /\ nSpawned = 0) => (~running[t] /\ ~healthy[t]))

\* C9 witness: a get_backend_status has returned running = true although the handle
\* is absent again and every other call has finished.
StatusStale ==
    \E t \in Threads :
        /\ op[t] = "get_status" /\ pc[t] = "idle" /\ running[t]
        /\ child = NoChild
        /\ \A u \in Threads \ {t} : pc[u] = "idle" /\ op[u] = "stop" /\ ret[u] = "Ok"

\* C10: a start whose spawn fails returns the spawn error with no handle stored, the
\* lock released and no process created, so the supervisor is Stopped.
SpawnFailureLeavesStopped ==
    [][\A t \in Threads :
        (Leaves(t, "start_spawn") /\ Returns(t)) =>
            /\ ret'[t] = "SpawnFailed"
            /\ child' = NoChild
            /\ lock' = NoThread
            /\ alive' = alive
            /\ nSpawned' = nSpawned]_vars

\* C10 witness: start_backend returned the spawn error, nothing is held and nothing
\* was ever spawned.
StartFailedToSpawn ==
    \E t \in Threads :
        /\ op[t] = "start" /\ pc[t] = "idle" /\ ret[t] = "SpawnFailed"
        /\ child = NoChild /\ lock = NoThread /\ nSpawned = 0

\* Thread t is inside a critical section on the handle: the check-and-spawn of
\* start (its warm-up sleep included), the take-and-kill of stop, the read of
\* is_running.
InCritical(t) ==
    pc[t] \in {"start_check", "start_spawn", "start_sleep", "stop_take", "stop_kill",
               "isrun_read"}

\* No two threads are inside a critical section, and the one inside holds the lock.
MutualExclusion ==
    /\ \A t \in Threads : InCritical(t) <=> lock = t
    /\ \A t, u \in Threads : (InCritical(t) /\ InCritical(u)) => t = u

\* The threads whose command is a start_backend, and those of them that got Ok.
Starters == {t \in Threads : op[t] = "start"}
Winners == {t \in Starters : pc[t] = "idle" /\ ret[t] = "Ok"}

\* Concurrent first start_backend calls, two at least, on the supervisor as
\* constructed have all returned, and nothing else was ever called.
StartRaceOver ==
    /\ onlyStarts
    /\ Cardinality(Starters) >= 2
    /\ \A t \in Starters : pc[t] = "idle"

\* C11 as stated: the critical sections exclude each other, so concurrent starts on
\* a Stopped supervisor spawn exactly one process and exactly one of them succeeds.
StartRaceSpawnsExactlyOne ==
    /\ MutualExclusion
    /\ StartRaceOver => (nSpawned = 1 /\ Cardinality(Winners) = 1)

\* C11 amended: the critical sections exclude each other, so concurrent starts on a
\* Stopped supervisor spawn at most one process and never both succeed; as many
\* succeed as processes were spawned, the starts that came before the successful one
\* return the spawn error and those after it the already-running error, and when no
\* spawn succeeds every start returns the spawn error.
StartRaceSpawnsAtMostOne ==
    /\ MutualExclusion
    /\ onlyStarts => (nSpawned <= 1 /\ Cardinality(Winners) <= 1)
    /\ StartRaceOver =>
          /\ Cardinality(Winners) = nSpawned
          /\ (nSpawned = 1) = (child # NoChild)
          /\ \A t \in Starters \ Winners :
                ret[t] \in (IF nSpawned = 1 THEN {"AlreadyRunning", "SpawnFailed"}
                            ELSE {"SpawnFailed"})

\* C11 witness: two concurrent starts have returned, one with Ok and the other
\* with the already-running error, and one process was spawned.
StartRaceWon ==
    /\ StartRaceOver
    /\ nSpawned = 1
    /\ \E t, u \in Starters : ret[t] = "Ok" /\ ret[u] = "AlreadyRunning"

\* Thread t is waiting for the lock.
AtLock(t) == pc[t] \in {"start_lock", "stop_lock", "isrun_lock"}

\* Thread t has a health probe in flight.
Probing(t) == pc[t] \in {"health_probe", "health_match"}

\* C12: a thread whose health probe is in flight does not hold the lock, so another
\* thread's start, stop or is_running is never made to wait by it: whenever the lock
\* is free or its own, that thread's next step can be taken, up to its return.
ProbeHoldsNoLock ==
    \A t \in Threads :
        Probing(t) =>
            /\ lock # t
            /\ \A u \in Threads \ {t} :
                  (pc[u] # "idle" /\ lock \in {NoThread, u}) => ENABLED SupStep(u)

\* C12 witness: while a get_backend_status is waiting on its probe, a stop_backend
\* of another thread has taken the lock, killed the only process ever spawned and
\* returned.
StoppedDuringProbe ==
    \E t, u \in Threads :
        /\ op[t] = "get_status" /\ pc[t] = "health_probe"
        /\ op[u] = "stop" /\ pc[u] = "idle" /\ ret[u] = "Ok"
        /\ child = NoChild /\ nSpawned = 1 /\ lock = NoThread

\* C13: check_backend_health never returns an error and never touches the handle or
\* the lock: its steps leave both as they were, its result is Ok(true) exactly when
\* send() returned a success-class response and Ok(false) for any other status and
\* for an error, and a check_backend_health call never waits for or holds the lock.
HealthNeverFails ==
    /\ [][\A t \in Threads :
            /\ Leaves(t, "health_probe") =>
                  /\ pc'[t] = "health_match" /\ response'[t] \in Responses
                  /\ child' = child /\ lock' = lock /\ alive' = alive
            /\ Leaves(t, "health_match") =>
                  /\ Returns(t) /\ ret'[t] = "Ok"
                  /\ healthy'[t] = (response[t] = "success_status")
                  /\ child' = child /\ lock' = lock /\ alive' = alive]_vars
    /\ [](\A t \in Threads :
            op[t] = "check_health" =>
                /\ pc[t] \in {"idle", "health_probe", "health_match"}
                /\ lock # t
                /\ pc[t] = "idle" => ret[t] = "Ok")

\* C13 witness: a check_backend_health has returned true while no handle is held
\* and none ever was.
HealthyWithoutHandle ==
    \E t \in Threads :
        /\ op[t] = "check_health" /\ pc[t] = "idle" /\ ret[t] = "Ok" /\ healthy[t]
        /\ child = NoChild /\ nSpawned = 0

\* --------------------------------------------- configuration properties

\* The handler of command `cmd` runs in this step.
Handles(cmd) == req.cmd = cmd /\ req'.cmd = "none"

\* Some storage path, or some present auth path, of cfg fails validate_path.
AnyPathInvalid(cfg) ==
    \/ \E f \in StorageFields : ~validate_path(cfg[f]).ok
    \/ \E f \in AuthFields : cfg[f] # <<>> /\ ~validate_path(cfg[f][1]).ok

\* The value get_credential reads for a key: the empty zero value when absent.
StoredKey == IF keychain["claude_api_key"] = <<>> THEN "" ELSE keychain["claude_api_key"][1]

\* C2: the persisted file never carries the two secret fields: neither is among the
\* fields written, and reading the file back gives an empty key and no password.
SecretsNeverInFile ==
    cfgFile # <<>> =>
        /\ (DOMAIN cfgFile[1]) \cap SkipFields = {}
        /\ Deserialize(cfgFile[1]).claude_api_key = ""
        /\ Deserialize(cfgFile[1]).target_password = <<>>

\* C2 witness: a save_config with a key and a password has written the file.
SavedWithSecrets ==
    /\ last.cmd = "save_config" /\ last.ok
    /\ last.key = "sk-a" /\ last.pw = <<"pw">>
    /\ cfgFile # <<>>

\* C3: a save_config whose settings hold a path that fails validation returns the
\* path error and changes neither the keychain nor the file.
SaveRejectsInvalidPath ==
    [][(Handles("save_config") /\ AnyPathInvalid(req.cfg[1])) =>
          /\ ~resp'.ok /\ resp'.err = "path"
          /\ keychain' = keychain
          /\ cfgFile' = cfgFile]_vars

\* C3 witness: a save_config has been refused for a path while a file and a stored
\* key existed.
SaveRefusedForPath ==
    /\ last.cmd = "save_config" /\ ~last.ok /\ resp.err = "path"
    /\ cfgFile # <<>>
    /\ keychain["claude_api_key"] # <<>>

\* A load_config is handled right after a save_config that returned Ok.
LoadsAfterSave == Handles("load_config") /\ last.cmd = "save_config" /\ last.ok

\* Two password fields hold the same secret; None and Some("") both hold none.
SamePassword(a, b) == a = b \/ {a, b} \subseteq {<<>>, <<"">>}

\* C4 as stated: after a successful save_config(S) with a non-empty secret, a
\* load_config that succeeds, the keychain answering both gets, returns the two
\* secret fields of S.
SaveLoadReturnsSecrets ==
    [][(/\ LoadsAfterSave
        /\ last.key # "" \/ last.pw \notin {<<>>, <<"">>}
        /\ resp'.ok /\ last'.unread = {}) =>
          /\ resp'.cfg[1].claude_api_key = last.key
          /\ SamePassword(resp'.cfg[1].target_password, last.pw)]_vars

\* C4 amended: after a successful save_config(S), a load_config that succeeds
\* returns each secret that is non-empty in S with the value of S when the keychain
\* answers the get, and at its zero value when it refuses; a secret that is empty
\* or absent in S comes back as whatever the keychain held before the save. The
\* keychain holds the non-empty secrets of S and the file none.
SaveLoadReattaches ==
    [][LoadsAfterSave =>
          /\ keychain' = keychain
          /\ last.key # "" => keychain["claude_api_key"] = <<last.key>>
          /\ last.pw \notin {<<>>, <<"">>} => keychain["target_password"] = last.pw
          /\ resp'.ok =>
                /\ resp'.cfg[1].claude_api_key =
                      IF "claude_api_key" \in last'.unread THEN "" ELSE StoredKey
                /\ resp'.cfg[1].target_password =
                      IF "target_password" \in last'.unread THEN <<>>
                      ELSE keychain["target_password"]
                /\ cfgFile' # <<>>
                /\ (DOMAIN cfgFile'[1]) \cap SkipFields = {}]_vars

\* C4 witness: a load_config has returned the key and the password that only a
\* save_config can have put into the keychain, and the file exists.
LoadedSavedSecrets ==
    /\ last.cmd = "load_config" /\ last.ok /\ last.unread = {}
    /\ resp.cfg[1].claude_api_key = "xx"
    /\ resp.cfg[1].target_password = <<"pw">>
    /\ cfgFile # <<>>

\* --------------------------------------------- credential properties

\* The command handled just before this one was `cmd` on the same key, and it
\* returned Ok.
FollowsOk(cmd) == last.cmd = cmd /\ last.ok /\ last.name = req.key

\* The keychain entry of the key could be opened and read by the command handled
\* in this step.
Reachable == last'.unread = {}

\* C14: a store_credential(k, v) that succeeds makes v, the empty string included,
\* the value of k and leaves the other keys alone, one that fails changes nothing,
\* and get_credential changes nothing; a get_credential(k) returns the value the
\* store holds for k, so right after a successful store(k, v) it returns exactly v
\* (an error, and no other value, only when the keychain cannot be read).
StoreThenGet ==
    [][/\ Handles("store_credential") =>
            IF resp'.ok
              THEN /\ get_credential(keychain', req.key, FALSE) =
                         [ok |-> TRUE, value |-> req.value]
                   /\ \A k \in CredKeys \ {req.key} : keychain'[k] = keychain[k]
              ELSE keychain' = keychain
       /\ Handles("get_credential") =>
            /\ keychain' = keychain
            /\ resp'.ok => resp'.value = keychain[req.key]
            /\ FollowsOk("store_credential") =>
                  IF Reachable THEN resp'.ok /\ resp'.value = <<last.value>>
                  ELSE ~resp'.ok /\ resp'.value = <<>>]_vars

\* C14 witness: a get_credential has returned the empty string, which only a
\* store_credential of the empty value can have put under the password key.
GotEmptyValue ==
    /\ last.cmd = "get_credential" /\ last.name = "target_password"
    /\ resp.ok /\ resp.value = <<"">>

\* C15: has_credential(k), the keychain being readable, is false while k has no
\* entry (so before any store of k), true right after a successful
\* store_credential(k, v) and false right after a delete_credential(k) that
\* returned success.
HasTracksStoreAndDelete ==
    [][(Handles("has_credential") /\ Reachable) =>
          /\ resp'.ok
          /\ keychain[req.key] = <<>> => resp'.value = <<FALSE>>
          /\ FollowsOk("store_credential") => resp'.value = <<TRUE>>
          /\ FollowsOk("delete_credential") => resp'.value = <<FALSE>>]_vars

\* C16: delete_credential for a key that has no entry returns success, the
\* keychain being reachable, and leaves the store and the file unchanged; applied
\* twice it gives the result and the store it gives applied once.
DeleteAbsentSucceeds ==
    [][Handles("delete_credential") =>
          /\ (keychain[req.key] = <<>> /\ Reachable) =>
                /\ resp'.ok
                /\ keychain' = keychain
                /\ cfgFile' = cfgFile
          /\ \A refused \in BOOLEAN :
                \E once \in {delete_credential(keychain, req.key, FALSE, refused)} :
                    delete_credential(once.kc, req.key, FALSE, refused) = once]_vars

\* C16 witness: a delete_credential of a key that had no entry has returned Ok,
\* and the key still has none.
DeletedAbsentKey ==
    /\ last.cmd = "delete_credential" /\ last.ok
    /\ last.before = <<>>
    /\ keychain[last.name] = <<>>

\* C17: get_credential(k) never changes the store, and it returns an error and no
\* value when k has no entry (never stored) and right after a delete_credential(k)
\* that returned success.
GetAfterDeleteFails ==
    [][Handles("get_credential") =>
          /\ keychain' = keychain
          /\ (keychain[req.key] = <<>> \/ FollowsOk("delete_credential")) =>
                (~resp'.ok /\ resp'.value = <<>>)]_vars

\* --------------------------------------------------- path properties

\* The path lies under an allowed base directory, or is one.
UnderBase(path) == \E base \in AllowedBases : starts_with(path, base)

\* The path has no "." and no ".." segment.
FreeOfDots(path) == \A i \in 1..Len(path) : path[i] \notin {".", ".."}

\* The path is canonical: free of "." and "..", and neither it nor any directory
\* on the way to it is a symbolic link.
IsCanonical(path) ==
    /\ FreeOfDots(path)
    /\ \A i \in 1..Len(path) : SubSeq(path, 1, i) \notin DOMAIN FsLinks

\* The path is, or passes through, a symbolic link whose target lies outside the
\* allowed bases, and does not climb back out of the target with "..".
EscapesThroughLink(path) ==
    \E i \in 1..Len(path) :
        LET dir == Canonicalize(SubSeq(path, 1, i - 1))
        IN  /\ dir # Fail
            /\ Append(dir, path[i]) \in DOMAIN FsLinks
            /\ ~UnderBase(FsLinks[Append(dir, path[i])])
            /\ \A j \in (i + 1)..Len(path) : path[j] # ".."

\* validate_path returns in this step; Given is its argument, Returned its Result.
Validates == validated = Pending(validated.path) /\ validated' # validated
Given == validated.path
Returned == validated'.result

\* C18: validate_path rejects every path that exists and whose canonical form is
\* not under an allowed base, and every path it accepts comes back as a canonical
\* path under an allowed base.
AcceptedPathsAreCanonical ==
    [][Validates =>
          /\ (Canonicalize(Given) # Fail /\ ~UnderBase(Canonicalize(Given))) =>
                ~Returned.ok
          /\ Returned.ok => (UnderBase(Returned.path) /\ IsCanonical(Returned.path))]_vars

\* C19: validate_path rejects a path that is, or passes through, a symbolic link
\* whose target lies outside the allowed bases, whether the target exists or not.
SymlinkEscapeRejected ==
    [][(Validates /\ EscapesThroughLink(Given)) => ~Returned.ok]_vars

\* The path as written begins with an allowed base directory.
RootedInside(path) == \E base \in AllowedBases : starts_with(path, base)

\* Path::parent and Path::file_name of a path, "." segments not counting.
ParentOf(path) == SubSeq(Components(path), 1, Len(Components(path)) - 1)
LeafOf(path) == Components(path)[Len(Components(path))]

Located(path) ==
    IF Canonicalize(path) # Fail THEN Canonicalize(path)
    ELSE IF Components(path) = <<>> \/ LeafOf(path) = ".." THEN Fail
    ELSE IF Canonicalize(ParentOf(path)) = Fail THEN Fail
    ELSE Append(Canonicalize(ParentOf(path)), LeafOf(path))

KeyViolated(cfg) == cfg.claude_api_key = "" \/ ~StartsWithSk(cfg.claude_api_key)
DepthViolated(cfg) == cfg.max_depth \notin 1..10
PagesViolated(cfg) == cfg.max_pages \notin 10..1000
FailingStorage(cfg) == {f \in StorageFields : ~validate_path(cfg[f]).ok}
FailingAuth(cfg) == {f \in AuthFields : cfg[f] # <<>> /\ ~validate_path(cfg[f][1]).ok}
Count(b) == IF b THEN 1 ELSE 0
Violations(cfg) ==
    Count(KeyViolated(cfg)) + Count(DepthViolated(cfg)) + Count(PagesViolated(cfg))
        + Cardinality(FailingStorage(cfg)) + Cardinality(FailingAuth(cfg))
ViolatedGroups(cfg) ==
    Count(KeyViolated(cfg)) + Count(DepthViolated(cfg)) + Count(PagesViolated(cfg))
        + Count(FailingStorage(cfg) # {}) + Count(FailingAuth(cfg) # {})

\* The settings the validate_config of this step is given, and the messages of
\* its answer.
Checked == req.cfg[1]
Reports(m) == \E i \in DOMAIN resp'.value : resp'.value[i] = m

\* The validate_config that was handled last: its settings, the directories that
\* existed when it began.
Validated == last.cmd = "validate_config"
LastChecked == last.before[1].cfg
DirsBefore == last.before[1].dirs

\* C21 as stated: validate_config, whatever it returns, leaves the directories, the
\* persisted file and the credential store unchanged.
ValidateConfigReadOnly ==
    [][Handles("validate_config") => UNCHANGED <<fsDirs, cfgFile, keychain>>]_vars

\* C21 amended: validate_config leaves the persisted file and the credential store
\* unchanged whatever it returns, and creates no directory when it returns an
\* error; when it returns success the snapshot directory exists, created by the
\* call if it did not exist, and no other directory is created.
ValidateConfigCreatesSnapshotDir ==
    [][Handles("validate_config") =>
          /\ UNCHANGED <<cfgFile, keychain>>
          /\ ~resp'.ok => UNCHANGED fsDirs
          /\ resp'.ok =>
                /\ validate_path(Checked.snapshot_storage_path).ok
                /\ fsDirs' = fsDirs \cup {validate_path(Checked.snapshot_storage_path).path}]_vars

\* C21 witness: a validate_config that returned success has created the snapshot
\* directory, which did not exist when it began.
ValidateCreatedSnapshotDir ==
    /\ Validated /\ last.ok
    /\ SnapshotDir \notin DirsBefore
    /\ SnapshotDir \in fsDirs

\* C22 as stated: the error of validate_config has one message for every rule the
\* settings violate, each failing storage path and each failing auth path counted.
ValidateReportsEveryViolation ==
    [][(Handles("validate_config") /\ Violations(Checked) > 0) =>
          /\ ~resp'.ok
          /\ Len(resp'.value) = Violations(Checked)]_vars

\* C22 amended: validate_config is not fail-fast across its five rules: its error
\* names, at once, the API-key rule, the depth bound, the page bound, the storage
\* group and the auth group, each exactly when the settings violate it; within a
\* group only the first failing path is reported, so several bad storage paths
\* give one storage message.
ValidateReportsEveryGroup ==
    [][(Handles("validate_config") /\ Violations(Checked) > 0) =>
          /\ ~resp'.ok
          /\ (Reports("api_key_empty") \/ Reports("api_key_format")) <=> KeyViolated(Checked)
          /\ Reports("max_depth") <=> DepthViolated(Checked)
          /\ Reports("max_pages") <=> PagesViolated(Checked)
          /\ Reports("storage_path") <=> FailingStorage(Checked) # {}
          /\ Reports("auth_path") <=> FailingAuth(Checked) # {}
          /\ Len(resp'.value) = ViolatedGroups(Checked)]_vars

\* C22 witness: settings that violate all five rules, three storage paths among
\* them, have been answered with five messages.
ValidateReportedFiveGroups ==
    /\ Validated /\ ~last.ok
    /\ Cardinality(FailingStorage(LastChecked)) = 3
    /\ ViolatedGroups(LastChecked) = 5
    /\ Len(resp.value) = 5

\* C23 as stated: validate_config returns success exactly when the key is non-empty
\* and starts with "sk-", max_depth is in [1,10], max_pages is in [10,1000] and
\* every storage path and present auth path passes validate_path.
ValidateSucceedsIffRulesHold ==
    [][Handles("validate_config") => (resp'.ok <=> Violations(Checked) = 0)]_vars

\* C23 amended: validate_config returns success exactly when all the rules hold and
\* the snapshot directory exists or has been created by the call (it returns an
\* error when the directory cannot be created). An empty key yields the empty-key
\* message and never the format message, a non-empty key without the prefix the
\* format message; max_depth 0 and 11 yield the depth message, max_pages 9 and
\* 1001 the page message; the bounds 1, 10 and 10, 1000 are accepted.
ValidateSucceedsIffRulesHoldAndDirExists ==
    [][Handles("validate_config") =>
          /\ resp'.ok <=>
                /\ Violations(Checked) = 0
                /\ validate_path(Checked.snapshot_storage_path).path \in fsDirs'
          /\ Checked.claude_api_key = "" =>
                Reports("api_key_empty") /\ ~Reports("api_key_format")
          /\ (Checked.claude_api_key # "" /\ KeyViolated(Checked)) =>
                Reports("api_key_format") /\ ~Reports("api_key_empty")
          /\ Checked.max_depth \in {0, 11} => Reports("max_depth")
          /\ Checked.max_depth \in {1, 10} => ~Reports("max_depth")
          /\ Checked.max_pages \in {9, 1001} => Reports("max_pages")
          /\ Checked.max_pages \in {10, 1000} => ~Reports("max_pages")]_vars

\* C23 witness: settings at the upper bound of the depth and the lower bound of the
\* pages have passed validate_config.
ValidateAcceptedBounds ==
    /\ Validated /\ last.ok
    /\ LastChecked.max_depth = 10
    /\ LastChecked.max_pages = 10

\* C27: wherever the document directory exists and the file system refuses
\* nothing, the default settings with the key set to "sk-a" pass validate_config,
\* and the default settings, whose key is empty, get the empty-key message alone.
DefaultsPassValidation ==
    [][(/\ Handles("validate_config")
        /\ DocumentDir \in fsDirs
        /\ last'.unread = {}) =>
          /\ Checked = [DefaultConfig EXCEPT !.claude_api_key = "sk-a"] => resp'.ok
          /\ Checked = DefaultConfig =>
                ~resp'.ok /\ resp'.value = <<"api_key_empty">>]_vars

\* -------------------------------------------- save and load properties

\* The settings the save_config of this step is given.
Saved == req.cfg[1]

\* C24 as stated: a save_config that succeeds leaves the snapshot directory
\* existing and creates neither the screenshot nor the database path; one that
\* fails creates no directory.
SaveCreatesSnapshotDir ==
    [][Handles("save_config") =>
          /\ resp'.ok =>
                /\ validate_path(Saved.snapshot_storage_path).path \in fsDirs'
                /\ fsDirs' \ fsDirs \subseteq {validate_path(Saved.snapshot_storage_path).path}
          /\ ~resp'.ok => UNCHANGED fsDirs]_vars

\* C24 amended: save_config creates no directory, the snapshot directory included:
\* whether it succeeds or fails, the directories after the call are those before
\* it, so none of the snapshot, the screenshot and the database path is created.
SaveCreatesNoDirectory ==
    [][Handles("save_config") =>
          /\ fsDirs' = fsDirs
          /\ \A f \in StorageFields : Saved[f] \in fsDirs' => Saved[f] \in fsDirs]_vars

\* C24 witness: a save_config has succeeded and the snapshot directory of the
\* settings it stored does not exist.
SavedWithoutSnapshotDir ==
    /\ last.cmd = "save_config" /\ last.ok
    /\ cfgFile # <<>>
    /\ Deserialize(cfgFile[1]).snapshot_storage_path = SnapshotDir
    /\ SnapshotDir \notin fsDirs

\* What load_config reads from the file, the defaults when there is none.
FileSettings == IF cfgFile = <<>> THEN DefaultConfig ELSE Deserialize(cfgFile[1])

\* The secrets load_config returns: those of the credential store, the zero value
\* for one that is missing or could not be retrieved.
SecretsOverlaid ==
    /\ resp'.cfg[1].claude_api_key =
          IF "claude_api_key" \in last'.unread \/ keychain["claude_api_key"] = <<>>
            THEN "" ELSE keychain["claude_api_key"][1]
    /\ resp'.cfg[1].target_password =
          IF "target_password" \in last'.unread \/ keychain["target_password"] = <<>>
            THEN <<>> ELSE keychain["target_password"]
    /\ \A f \in DOMAIN DefaultConfig \ SkipFields : resp'.cfg[1][f] = FileSettings[f]

\* C25 as stated: load_config fails only when the settings cannot be read, never
\* for a credential; it returns the settings with each secret taken from the
\* credential store when retrieval succeeded and left at its zero value otherwise;
\* it changes neither the file nor the credential store.
LoadToleratesMissingSecrets ==
    [][Handles("load_config") =>
          /\ resp'.ok \/ resp'.err = "load"
          /\ resp'.ok => SecretsOverlaid
          /\ UNCHANGED <<cfgFile, keychain>>]_vars

\* C25 amended: as stated, except for the file: load_config leaves an existing file
\* unchanged, and when there is no file it creates one holding the default
\* settings, without secrets.
LoadToleratesMissingSecretsWritesDefaults ==
    [][Handles("load_config") =>
          /\ resp'.ok \/ resp'.err = "load"
          /\ resp'.ok => SecretsOverlaid
          /\ UNCHANGED keychain
          /\ cfgFile # <<>> => UNCHANGED cfgFile
          /\ (cfgFile = <<>> /\ resp'.ok) =>
                /\ cfgFile' # <<>>
                /\ Deserialize(cfgFile'[1]) = DefaultConfig
                /\ (DOMAIN cfgFile'[1]) \cap SkipFields = {}
          /\ (cfgFile = <<>> /\ ~resp'.ok) => UNCHANGED cfgFile]_vars

\* C25 witness: a load_config has succeeded although the stored API key could not
\* be retrieved, and has returned the empty key.
LoadedWithoutKey ==
    /\ last.cmd = "load_config" /\ last.ok
    /\ "claude_api_key" \in last.unread
    /\ keychain["claude_api_key"] # <<>>
    /\ resp.cfg[1].claude_api_key = ""

\* C26: a save_config that returns an error, whatever the reason, has changed
\* neither the credential store nor the persisted file.
SaveAllOrNothing ==
    [][(Handles("save_config") /\ ~resp'.ok) => UNCHANGED <<keychain, cfgFile>>]_vars

\* C28: migrate_credential_to_keychain(k, value) with a value that is present and
\* not empty stores it under k, leaves the other keys alone and returns true (an
\* error, with nothing changed, only when the keychain refuses the store); with no
\* value or the empty string it returns false and leaves the credential store, and
\* so the answer of has(k), unchanged.
MigrateStoresPresentValue ==
    [][Handles("migrate_credential") =>
          IF req.value # <<>> /\ req.value[1] # ""
            THEN IF Reachable
                   THEN /\ resp'.ok /\ resp'.value = <<TRUE>>
                        /\ keychain' = [keychain EXCEPT ![req.key] = req.value]
                   ELSE ~resp'.ok /\ UNCHANGED keychain
            ELSE /\ resp'.ok /\ resp'.value = <<FALSE>>
                 /\ UNCHANGED keychain
                 /\ has_credential(keychain', req.key, FALSE)
                        = has_credential(keychain, req.key, FALSE)]_vars

\* C28 witness: a migration of a secret for a key that had no entry has returned
\* true and the store holds the secret under that key.
MigratedSecret ==
    /\ last.cmd = "migrate_credential" /\ last.ok
    /\ last.value = <<"sk-a">> /\ last.before = <<>>
    /\ resp.value = <<TRUE>>
    /\ keychain[last.name] = <<"sk-a">>

\* ---------------------------------------- stop and warm-up properties

\* Thread t is inside start, between its check and the end of its warm-up wait.
Starting(t) == pc[t] \in {"start_check", "start_spawn", "start_sleep"}

\* C29: a stop that found a handle ends with the handle absent and the lock free,
\* whether the kill succeeded or failed; a failed kill returns the kill-failed
\* error and leaves the process as it was. With the handle absent, and whatever
\* process is still alive, is_running reads false and the check of start does not
\* answer already-running but goes on to spawn.
FailedStopLooksStopped ==
    [][\A t \in Threads :
        /\ Leaves(t, "stop_kill") =>
              /\ taken[t] # NoChild
              /\ child = NoChild /\ child' = NoChild
              /\ lock' = NoThread
              /\ (op[t] = "stop" /\ ret'[t] = "KillFailed") =>
                    (Returns(t) /\ alive' = alive)
        /\ (Leaves(t, "isrun_read") /\ child = NoChild) => ~running'[t]
        /\ (Leaves(t, "start_check") /\ child = NoChild) =>
              /\ pc'[t] = "start_spawn"
              /\ ret'[t] = ret[t]]_vars

\* C29 witness: after a stop_backend that returned the kill-failed error, a
\* start_backend has returned Ok, and both the old and the new process are alive.
StartedAfterFailedStop ==
    \E t, u \in Threads :
        /\ op[t] = "stop" /\ pc[t] = "idle" /\ ret[t] = "KillFailed"
        /\ op[u] = "start" /\ pc[u] = "idle" /\ ret[u] = "Ok"
        /\ child = 2 /\ alive = {1, 2}

\* C30: from its check to the end of its warm-up wait start holds the lock: no other
\* thread is inside a section that reads or changes the handle, and one that waits
\* for the lock cannot move. While a start is in its warm-up the handle stays as it
\* is, no is_running reads it, no stop takes it and no answer turns to running =
\* true, so a read of running = true happens only when no start is between its
\* spawn and its return.
StartHoldsLockThroughWarmUp ==
    /\ [](\A t \in Threads :
            Starting(t) =>
                /\ lock = t
                /\ \A u \in Threads \ {t} :
                      /\ ~InCritical(u)
                      /\ AtLock(u) => ~ENABLED SupStep(u))
    /\ [][\A t \in Threads :
            /\ (pc[t] = "start_sleep" /\ pc'[t] = "start_sleep") =>
                  /\ child' = child /\ lock' = lock
                  /\ \A u \in Threads : ~Leaves(u, "isrun_read") /\ ~Leaves(u, "stop_take")
                  /\ \A u \in Threads : running'[u] => running[u]
            /\ (Leaves(t, "isrun_read") /\ running'[t]) =>
                  \A u \in Threads : pc[u] # "start_sleep"]_vars

\* C30 witness: a start is in its warm-up wait with the handle stored while another
\* thread's is_running waits for the lock.
WaitingForWarmUp ==
    \E t, u \in Threads :
        /\ pc[t] = "start_sleep" /\ child # NoChild /\ lock = t
        /\ op[u] \in {"is_running", "get_status"} /\ pc[u] = "isrun_lock"

\* ------------------------------------------------- restart properties

\* Thread t is in the gap of restart: its stop phase has ended, the check of its
\* start phase has not begun.
InRestartGap(t) == op[t] = "restart" /\ pc[t] \in {"restart_sleep", "start_lock"}

\* C31: in the gap between its stop phase and its start phase restart does not hold
\* the lock, and another thread that finds the lock free can take its next step.
\* When the check of its start phase finds a handle, restart returns the
\* already-running error and leaves that handle as it is. A restart returns Ok only
\* from the end of its own warm-up, and from its spawn to that return the handle
\* holds, unchanged, the process this restart spawned, the latest one spawned.
RestartReleasesLockInGap ==
    /\ [](\A t \in Threads :
            /\ InRestartGap(t) =>
                  /\ lock # t
                  /\ \A u \in Threads \ {t} :
                        (pc[u] # "idle" /\ lock \in {NoThread, u}) => ENABLED SupStep(u)
            /\ (op[t] = "restart" /\ pc[t] = "start_sleep") =>
                  (child # NoChild /\ child = nSpawned /\ lock = t))
    /\ [][\A t \in Threads :
            op[t] = "restart" =>
                /\ (Leaves(t, "start_check") /\ child # NoChild) =>
                      /\ Returns(t) /\ ret'[t] = "AlreadyRunning"
                      /\ child' = child /\ alive' = alive /\ nSpawned' = nSpawned
                /\ (Leaves(t, "start_spawn") /\ pc'[t] = "start_sleep") =>
                      (child' = nSpawned + 1 /\ nSpawned' = nSpawned + 1)
                /\ pc[t] = "start_sleep" => child' = child
                /\ (Returns(t) /\ ret'[t] = "Ok") => pc[t] = "start_sleep"]_vars

\* C31 witness: a restart_backend on the supervisor as constructed has returned the
\* already-running error because a start_backend of another thread, run in its
\* gap, spawned the only process there is, which the handle still holds.
RestartLostTheGap ==
    \E t, u \in Threads :
        /\ op[t] = "restart" /\ pc[t] = "idle" /\ ret[t] = "AlreadyRunning"
        /\ op[u] = "start" /\ pc[u] = "idle" /\ ret[u] = "Ok"
        /\ nSpawned = 1 /\ child = 1

\* ------------------------------------------------ progress properties

Storing == IF req.cmd = "reset_config" THEN DefaultConfig ELSE req.cfg[1]

\* C33: save_config and reset_config, whether they succeed or fail, never remove an
\* entry of the credential store; an entry changes only to the non-empty secret the
\* settings carry for it, so an empty API key, an absent or empty password and
\* every reset_config leave the stored secret as it was. A load_config that follows
\* a save_config or a reset_config and can read the file and the keychain returns
\* the secrets the store holds.
SaveKeepsStoredSecrets ==
    [][/\ (Handles("save_config") \/ Handles("reset_config")) =>
            /\ \A k \in CredKeys : keychain[k] # <<>> => keychain'[k] # <<>>
            /\ keychain'["claude_api_key"] \in
                  {keychain["claude_api_key"], <<Storing.claude_api_key>>}
            /\ keychain'["target_password"] \in
                  {keychain["target_password"], Storing.target_password}
            /\ Storing.claude_api_key = "" =>
                  keychain'["claude_api_key"] = keychain["claude_api_key"]
            /\ Storing.target_password \in {<<>>, <<"">>} =>
                  keychain'["target_password"] = keychain["target_password"]
            /\ req.cmd = "reset_config" => UNCHANGED keychain
       /\ (/\ Handles("load_config")
           /\ last.cmd \in {"save_config", "reset_config"}
           /\ resp'.ok /\ Reachable) =>
            /\ UNCHANGED keychain
            /\ keychain["claude_api_key"] # <<>> =>
                  resp'.cfg[1].claude_api_key = keychain["claude_api_key"][1]
            /\ keychain["target_password"] # <<>> =>
                  resp'.cfg[1].target_password = keychain["target_password"]]_vars

\* C33 witness: a reset_config has succeeded, the file holds the default settings,
\* and the store still holds the API key and the password put there before it.
SecretsOutliveReset ==
    /\ last.cmd = "reset_config" /\ last.ok
    /\ cfgFile # <<>> /\ Deserialize(cfgFile[1]) = DefaultConfig
    /\ keychain["claude_api_key"] = <<"sk-a">>
    /\ keychain["target_password"] = <<"pw">>

====
